---- MODULE Spec2Model ----
(***************************************************************************)
(* A model of SUMO.py: the incident-aware rerouting controller that drives  *)
(* a SUMO simulation through TraCI.                                         *)
(*                                                                          *)
(* Units.  Local planar coordinates and edge lengths are whole metres.      *)
(* GPS latitude/longitude are whole multiples of 1e-4 degree, near the      *)
(* origin of the grid, where one unit of either is 11.1195 m of great       *)
(* circle (6371 km * pi/180 * 1e-4).  Distances are carried in decimetres,  *)
(* rounded down, so that the code's comparisons against whole-metre and     *)
(* tenth-of-a-metre thresholds are decided exactly as the floats decide     *)
(* them.  Strings that the code inspects (titles) are tuples of characters. *)
(***************************************************************************)
EXTENDS Integers, Sequences, FiniteSets, TLC

None == "None"

(***************************************************************************)
(* Arithmetic helpers                                                       *)
(***************************************************************************)
Abs(x) == IF x < 0 THEN -x ELSE x

Min(a, b) == IF a < b THEN a ELSE b

RECURSIVE SqrtSearch(_, _, _)
SqrtSearch(n, lo, hi) ==
    IF lo >= hi THEN lo
    ELSE LET mid == (lo + hi + 1) \div 2
         IN  IF mid * mid <= n THEN SqrtSearch(n, mid, hi)
                               ELSE SqrtSearch(n, lo, mid - 1)

\* math.sqrt, rounded down to a whole number
ISqrt(n) == SqrtSearch(n, 0, 46340)

\* math.sqrt, rounded up to a whole number
CeilSqrt(n) == IF ISqrt(n) * ISqrt(n) = n THEN ISqrt(n) ELSE ISqrt(n) + 1

\* the square of haversine(lat1, lon1, lat2, lon2) * 1000 in decimetres: for
\* the small angles of the grid a = (dlat/2)^2 + (dlon/2)^2 and
\* R*c = R*sqrt(dlat^2+dlon^2); one grid unit is 111.195 dm, whose square is
\* 12364 dm^2.
HaversineSquare(lat1, lon1, lat2, lon2) ==
    LET dlat == lat2 - lat1
        dlon == lon2 - lon1
    IN  12364 * (dlat * dlat + dlon * dlon)

\* haversine(lat1, lon1, lat2, lon2) * 1000, in decimetres, rounded down
haversine(lat1, lon1, lat2, lon2) == ISqrt(HaversineSquare(lat1, lon1, lat2, lon2))

\* math.sqrt(dx*dx + dy*dy) for metre inputs, in decimetres
LocalDistance(dx, dy) == ISqrt(100 * (dx * dx + dy * dy))

(***************************************************************************)
(* Text helpers                                                             *)
(***************************************************************************)
UpperChars == <<"A","B","C","D","E","F","G","H","I","J","K","L","M",
                "N","O","P","Q","R","S","T","U","V","W","X","Y","Z">>

LowerChars == <<"a","b","c","d","e","f","g","h","i","j","k","l","m",
                "n","o","p","q","r","s","t","u","v","w","x","y","z">>

LowerChar(c) ==
    IF \E i \in 1..Len(UpperChars) : UpperChars[i] = c
    THEN LowerChars[CHOOSE i \in 1..Len(UpperChars) : UpperChars[i] = c]
    ELSE c

\* str.lower()
Lower(s) == [i \in 1..Len(s) |-> LowerChar(s[i])]

\* needle in haystack (substring)
Contains(hay, needle) ==
    \E i \in 0..(Len(hay) - Len(needle)) :
        \A j \in 1..Len(needle) : hay[i + j] = needle[j]

RECURSIVE LStrip(_)
LStrip(s) == IF s # <<>> /\ Head(s) = " " THEN LStrip(Tail(s)) ELSE s

RECURSIVE RStrip(_)
RStrip(s) == IF s # <<>> /\ s[Len(s)] = " " THEN RStrip(SubSeq(s, 1, Len(s) - 1)) ELSE s

\* str.strip()
Strip(s) == RStrip(LStrip(s))

HighWords == { <<"g","e","s","p","e","r","r","t">>,
               <<"v","o","l","l","s","p","e","r","r","u","n","g">>,
               <<"b","l","o","c","k","e","d">>,
               <<"c","l","o","s","e","d">> }

MediumWords == { <<"b","a","u","s","t","e","l","l","e">>,
                 <<"c","o","n","s","t","r","u","c","t","i","o","n">>,
                 <<"r","o","a","d","w","o","r","k">>,
                 <<"l","a","n","e">> }

\* the tiers tried in the other order
get_incident_severity_mediumFirst(incident_data) ==
    LET title == Lower(IF "title" \in DOMAIN incident_data
                       THEN incident_data.title ELSE <<>>)
    IN  IF \E word \in MediumWords : Contains(title, word) THEN "medium"
        ELSE IF \E word \in HighWords : Contains(title, word) THEN "high"
        ELSE "low"

\* get_incident_severity(incident_data): incident_data is the raw feed item
get_incident_severity(incident_data) ==
    LET title == Lower(IF "title" \in DOMAIN incident_data
                       THEN incident_data.title ELSE <<>>)
    IN  IF \E word \in HighWords : Contains(title, word) THEN "high"
        ELSE IF \E word \in MediumWords : Contains(title, word) THEN "medium"
        ELSE "low"

(***************************************************************************)
(* Incident feed: remove_duplicate_incidents, get_incidents                 *)
(***************************************************************************)
min_distance == 100

\* the body of the inner loop of remove_duplicate_incidents: is `incident` a
\* duplicate of the already retained `existing`?
IsDuplicateOf(incident, existing) ==
    LET distance ==
            IF "local_x" \in DOMAIN incident /\ "local_x" \in DOMAIN existing
            THEN LocalDistance(incident.local_x - existing.local_x,
                               incident.local_y - existing.local_y)
            ELSE haversine(incident.latitude, incident.longitude,
                           existing.latitude, existing.longitude)
    IN  distance < min_distance * 10 /\ incident.title = existing.title

\* a deduplication that looks only at the incident retained last
RECURSIVE DedupFrom_lastOnly(_, _, _)
DedupFrom_lastOnly(incidents, i, unique_incidents) ==
    IF i > Len(incidents) THEN unique_incidents
    ELSE LET incident == incidents[i]
             is_duplicate ==
                 /\ unique_incidents # <<>>
                 /\ IsDuplicateOf(incident, unique_incidents[Len(unique_incidents)])
         IN  DedupFrom_lastOnly(incidents, i + 1,
                                IF is_duplicate THEN unique_incidents
                                                ELSE Append(unique_incidents, incident))

\* a deduplication that compares with every earlier incident, retained or not
RECURSIVE DedupFrom_againstAll(_, _, _)
DedupFrom_againstAll(incidents, i, unique_incidents) ==
    IF i > Len(incidents) THEN unique_incidents
    ELSE LET incident == incidents[i]
             is_duplicate == \E k \in 1..(i - 1) :
                                 IsDuplicateOf(incident, incidents[k])
         IN  DedupFrom_againstAll(incidents, i + 1,
                                  IF is_duplicate THEN unique_incidents
                                                  ELSE Append(unique_incidents, incident))

RECURSIVE DedupFrom(_, _, _)
DedupFrom(incidents, i, unique_incidents) ==
    IF i > Len(incidents) THEN unique_incidents
    ELSE LET incident == incidents[i]
             is_duplicate == \E k \in 1..Len(unique_incidents) :
                                 IsDuplicateOf(incident, unique_incidents[k])
         IN  DedupFrom(incidents, i + 1,
                       IF is_duplicate THEN unique_incidents
                                       ELSE Append(unique_incidents, incident))

remove_duplicate_incidents(incidents) == DedupFrom(incidents, 1, <<>>)

\* the (area, service) pairs in the order get_incidents polls them
PollPairs == << <<"A2", "warning">>, <<"A2", "roadworks">>,
                <<"A39", "warning">>, <<"A39", "roadworks">> >>

\* convert_gps_to_local: (None, None), written <<>>, without a transformer or
\* when the transform raises; otherwise the planar position <<x, y>> of the
\* GPS point (whole metres; the projection is linear on the grid, 11 m per
\* unit).
convert_gps_to_local(lat, lon, transformer, raises) ==
    IF transformer = None \/ raises THEN <<>>
    ELSE <<11 * lon, 11 * lat>>

\* One raw item accepted into the batch (lines 533-559).  An item is a record
\* with optional fields title and coordinate; projFails says the transform
\* raises for this point.
MakeIncident(it, area, service, n, transformer) ==
    LET lat == it.coordinate.lat
        lon == it.coordinate.long
        loc == convert_gps_to_local(lat, lon, transformer, it.projFails)
        base == [id |-> <<area, service, n>>,
                 title |-> Strip(IF "title" \in DOMAIN it THEN it.title ELSE <<>>),
                 latitude |-> lat,
                 longitude |-> lon,
                 type |-> service,
                 area |-> area,
                 severity |-> get_incident_severity(it)]
    IN  IF loc # <<>>
        THEN [f \in DOMAIN base \cup {"local_x", "local_y"} |->
                 IF f = "local_x" THEN loc[1]
                 ELSE IF f = "local_y" THEN loc[2]
                 ELSE base[f]]
        ELSE base

\* the loop over the items of one successful response
RECURSIVE AddItems(_, _, _, _, _, _)
AddItems(items, i, incidents, area, service, transformer) ==
    IF i > Len(items) THEN incidents
    ELSE LET it == items[i]
         IN  AddItems(items, i + 1,
                 IF "coordinate" \in DOMAIN it
                    /\ "lat" \in DOMAIN it.coordinate
                    /\ "long" \in DOMAIN it.coordinate
                 THEN Append(incidents,
                             MakeIncident(it, area, service, Len(incidents), transformer))
                 ELSE incidents,
                 area, service, transformer)

\* The loop over the pairs.  A response is [kind |-> "ok", items |-> ...],
\* [kind |-> "timeout"] (a RequestException: skip the pair), [kind |->
\* "status"] (status_code # 200: skip the pair) or [kind |-> "badshape"] (the
\* payload is JSON of the wrong shape: an exception that is no
\* RequestException, caught by the outer handler, which ends the whole poll
\* and returns what was collected, not deduplicated).
RECURSIVE PollFrom(_, _, _, _)
PollFrom(feed, k, incidents, transformer) ==
    IF k > Len(PollPairs) THEN remove_duplicate_incidents(incidents)
    ELSE LET r == feed[k]
         IN  CASE r.kind = "badshape" -> incidents
               [] r.kind \in {"timeout", "status"} ->
                     PollFrom(feed, k + 1, incidents, transformer)
               [] OTHER ->
                     PollFrom(feed, k + 1,
                              AddItems(r.items, 1, incidents, PollPairs[k][1],
                                       PollPairs[k][2], transformer),
                              transformer)

get_incidents(feed, transformer) == PollFrom(feed, 1, <<>>, transformer)

(***************************************************************************)
(* Impact correlation: get_affected_route_edges, get_severity_weight        *)
(***************************************************************************)
get_severity_weight(severity) ==
    CASE severity = "high" -> 3
      [] severity = "medium" -> 2
      [] severity = "low" -> 1
      [] OTHER -> 1

base_radius(severity) ==
    IF severity = "high" THEN 200
    ELSE IF severity = "medium" THEN 100
    ELSE 50

\* lines 601-618: distance and dynamic radius of one incident against one
\* edge, both in decimetres.  The distance is rounded up, so that the
\* comparison with the whole-numbered radius at line 620 is exact.
EdgeDistance(incident, edge_data) ==
    IF "local_x" \in DOMAIN incident /\ "local_y" \in DOMAIN incident
    THEN LET dx == incident.local_x - edge_data.x
             dy == incident.local_y - edge_data.y
         IN  CeilSqrt(100 * (dx * dx + dy * dy))
    ELSE CeilSqrt(HaversineSquare(incident.latitude, incident.longitude,
                                  (edge_data.x * 10) \div 111,
                                  (edge_data.y * 10) \div 111))

\* a radius without the share of the edge length
dynamic_radius_flat(incident, edge_data) ==
    IF "local_x" \in DOMAIN incident /\ "local_y" \in DOMAIN incident
    THEN base_radius(incident.severity) * 10
    ELSE base_radius(incident.severity) * 2 * 10

dynamic_radius(incident, edge_data) ==
    IF "local_x" \in DOMAIN incident /\ "local_y" \in DOMAIN incident
    THEN base_radius(incident.severity) * 10 + Min(edge_data.length, 100 * 10)
    ELSE base_radius(incident.severity) * 2 * 10

\* a correlation that records the severity of the incident seen last
AffectOne_lastWins(incident, centers, affected) ==
    LET hit == {edge \in DOMAIN centers :
                   EdgeDistance(incident, centers[edge])
                       <= dynamic_radius(incident, centers[edge])}
    IN  [edge \in DOMAIN affected \cup hit |->
            IF edge \in hit THEN incident.severity ELSE affected[edge]]

\* lines 620-623 for one incident over every edge of centers; affected is a
\* function from the affected edges to their recorded severity
AffectOne(incident, centers, affected) ==
    LET hit == {edge \in DOMAIN centers :
                   /\ EdgeDistance(incident, centers[edge])
                          <= dynamic_radius(incident, centers[edge])
                   /\ \/ edge \notin DOMAIN affected
                      \/ get_severity_weight(incident.severity)
                             > get_severity_weight(affected[edge])}
    IN  [edge \in DOMAIN affected \cup hit |->
            IF edge \in hit THEN incident.severity ELSE affected[edge]]

\* a correlation whose map is started afresh for every incident
AffectFrom_lastOnly(incidents, i, centers, affected) ==
    IF incidents = <<>> THEN affected
    ELSE AffectOne(incidents[Len(incidents)], centers, <<>>)

RECURSIVE AffectFrom(_, _, _, _)
AffectFrom(incidents, i, centers, affected) ==
    IF i > Len(incidents) THEN affected
    ELSE AffectFrom(incidents, i + 1, centers,
                    AffectOne(incidents[i], centers, affected))

get_affected_route_edges(incidents, centers) ==
    AffectFrom(incidents, 1, centers, <<>>)

IdsOf(incidents) == {incidents[i].id : i \in 1..Len(incidents)}

\* a comparison of the list lengths instead of the id sets
compare_incidents_by_length(prev_incidents, new_incidents) ==
    <<IF Len(new_incidents) > Len(prev_incidents)
      THEN Len(new_incidents) - Len(prev_incidents) ELSE 0,
      IF Len(prev_incidents) > Len(new_incidents)
      THEN Len(prev_incidents) - Len(new_incidents) ELSE 0>>

\* compare_incidents_accurately: <<new count, resolved count>>
compare_incidents_accurately(prev_incidents, new_incidents) ==
    LET prev_ids == IdsOf(prev_incidents)
        new_ids == IdsOf(new_incidents)
    IN  <<Cardinality(new_ids \ prev_ids), Cardinality(prev_ids \ new_ids)>>

(***************************************************************************)
(* Weather: the friction table and get_weather_for_simulation_time          *)
(***************************************************************************)
\* map_ (lines 306-331): <<code, label, friction in hundredths>>
WeatherTable ==
    { <<0, "Clear sky", 100>>, <<1, "Mainly clear", 95>>, <<2, "Partly cloudy", 90>>,
      <<3, "Overcast", 85>>, <<45, "Fog", 80>>, <<48, "Dense fog", 65>>,
      <<51, "Light drizzle", 75>>, <<53, "Moderate drizzle", 70>>,
      <<55, "Dense drizzle", 65>>, <<61, "Light rain", 70>>,
      <<63, "Moderate rain", 60>>, <<65, "Heavy rain", 50>>,
      <<71, "Light snow", 55>>, <<73, "Moderate snow", 45>>,
      <<75, "Heavy snow", 35>>, <<77, "Snow grains", 50>>,
      <<80, "Light rain showers", 65>>, <<81, "Moderate rain showers", 55>>,
      <<82, "Violent rain showers", 40>>, <<85, "Light snow showers", 50>>,
      <<86, "Heavy snow showers", 30>>, <<95, "Thunderstorm", 45>>,
      <<96, "Thunderstorm with hail", 35>>,
      <<99, "Thunderstorm with heavy hail", 25>> }

\* map_.get(weather_code, ("Unknown", 1.0))
WeatherLookup(weather_code) ==
    IF \E e \in WeatherTable : e[1] = weather_code
    THEN LET e == CHOOSE e \in WeatherTable : e[1] = weather_code
         IN  <<e[2], e[3]>>
    ELSE <<"Unknown", 100>>

\* str(friction_value) of a float given in hundredths: Python prints the
\* shortest repr, "1.0", "0.5", "0.25", ...
FloatStr(h) ==
    LET digit == <<"0","1","2","3","4","5","6","7","8","9">>
        d1 == digit[((h % 100) \div 10) + 1]
        d2 == digit[(h % 10) + 1]
    IN  <<digit[(h \div 100) + 1], ".", d1>> \o (IF h % 10 = 0 THEN <<>> ELSE <<d2>>)

\* float(friction) of such a string, back in hundredths
StrFloat(s) ==
    LET val(c) == CHOOSE k \in 0..9 :
                      <<"0","1","2","3","4","5","6","7","8","9">>[k + 1] = c
    IN  100 * val(s[1]) + 10 * val(s[3]) + (IF Len(s) > 3 THEN val(s[4]) ELSE 0)

\* a lookup that takes only the samples strictly before the resolved time
weather_row_strict(forecast_df, sim_start_dt, sim_seconds) ==
    LET real_time_now == sim_start_dt + sim_seconds
        valid_forecasts == {i \in 1..Len(forecast_df) :
                               forecast_df[i].time < real_time_now}
    IN  IF valid_forecasts = {}
        THEN (IF Len(forecast_df) = 0 THEN 0 ELSE 1)
        ELSE CHOOSE i \in valid_forecasts : \A j \in valid_forecasts : j <= i

\* a lookup that falls back to the latest sample when none qualifies
weather_row_latestFallback(forecast_df, sim_start_dt, sim_seconds) ==
    LET real_time_now == sim_start_dt + sim_seconds
        valid_forecasts == {i \in 1..Len(forecast_df) :
                               forecast_df[i].time <= real_time_now}
    IN  IF valid_forecasts = {}
        THEN Len(forecast_df)
        ELSE CHOOSE i \in valid_forecasts : \A j \in valid_forecasts : j <= i

\* lines 291-301: the index of the forecast row that applies at sim_seconds.
\* forecast_df is a sequence of [time, weathercode]; an empty one makes
\* iloc[0] raise, written 0.
weather_row(forecast_df, sim_start_dt, sim_seconds) ==
    LET real_time_now == sim_start_dt + sim_seconds
        valid_forecasts == {i \in 1..Len(forecast_df) :
                               forecast_df[i].time <= real_time_now}
    IN  IF valid_forecasts = {}
        THEN (IF Len(forecast_df) = 0 THEN 0 ELSE 1)
        ELSE CHOOSE i \in valid_forecasts : \A j \in valid_forecasts : j <= i

\* get_weather_for_simulation_time: <<friction, weather_code, weather_name>>
get_weather_for_simulation_time(forecast_df, sim_start_dt, sim_seconds) ==
    LET weather_code == forecast_df[weather_row(forecast_df, sim_start_dt,
                                                sim_seconds)].weathercode
        entry == WeatherLookup(weather_code)
    IN  <<FloatStr(entry[2]), weather_code, entry[1]>>

\* test_low_friction_scenario()
test_low_friction_scenario ==
    << <<"0",".","2","5">>, 0, "TEST: Heavy Thunderstorm with Hail" >>

(***************************************************************************)
(* GeoIndex: get_edge_centers_for_routes                                    *)
(***************************************************************************)
RECURSIVE SumSeq(_, _)
SumSeq(s, k) == IF s = <<>> THEN 0 ELSE Head(s)[k] + SumSeq(Tail(s), k)

RECURSIVE Concat(_)
Concat(ss) == IF ss = <<>> THEN <<>> ELSE Head(ss) \o Concat(Tail(ss))

\* the edges of every route of a RouteSet (a function vehicle -> edge sequence)
RouteEdges(routes) ==
    UNION {{routes[v][i] : i \in 1..Len(routes[v])} : v \in DOMAIN routes}

\* a resolution that stops at the edge's own shape and never asks for the
\* junctions
ResolveCoords_noJunctions(g) ==
    IF ~g.known THEN [skip |-> TRUE, coords |-> <<>>]
    ELSE LET lane_coords ==
                 Concat([i \in 1..Len(g.lanes) |->
                            IF g.lanes[i].ok THEN g.lanes[i].shape ELSE <<>>])
         IN  IF lane_coords # <<>> THEN [skip |-> FALSE, coords |-> lane_coords]
             ELSE IF g.shape.ok THEN [skip |-> FALSE, coords |-> g.shape.shape]
             ELSE [skip |-> TRUE, coords |-> <<>>]

\* lines 464-487: the vertices resolved for one edge.  net[edge] answers the
\* simulator's geometry queries: known (getLaneNumber succeeds), lanes (per
\* lane [ok, shape]), shape ([ok, shape] of edge.getShape), junctions ([ok,
\* from, to]) and length ([ok, value]).  The result is [skip, coords]: skip
\* when an exception sends the loop to the next edge.
ResolveCoords(g) ==
    IF ~g.known THEN [skip |-> TRUE, coords |-> <<>>]
    ELSE LET lane_coords ==
                 Concat([i \in 1..Len(g.lanes) |->
                            IF g.lanes[i].ok THEN g.lanes[i].shape ELSE <<>>])
         IN  IF lane_coords # <<>> THEN [skip |-> FALSE, coords |-> lane_coords]
             ELSE IF g.shape.ok THEN [skip |-> FALSE, coords |-> g.shape.shape]
             ELSE IF g.junctions.ok
                  THEN [skip |-> FALSE,
                        coords |-> <<g.junctions.from, g.junctions.to>>]
             ELSE [skip |-> TRUE, coords |-> <<>>]

\* get_edge_centers_for_routes: the dict written to EDGE_CENTERS_CACHE.  The
\* means are whole numbers for the geometries used here.
get_edge_centers_for_routes(routes, net) ==
    LET resolved == [edge \in RouteEdges(routes) |-> ResolveCoords(net[edge])]
        kept == {edge \in RouteEdges(routes) :
                    ~resolved[edge].skip /\ resolved[edge].coords # <<>>}
    IN  [edge \in kept |->
            LET coords == resolved[edge].coords
            IN  [x |-> SumSeq(coords, 1) \div Len(coords),
                 y |-> SumSeq(coords, 2) \div Len(coords),
                 length |-> IF net[edge].length.ok THEN net[edge].length.value
                            ELSE 100]]

(***************************************************************************)
(* The world the program runs in: network, trips, feeds                     *)
(***************************************************************************)
\* the last simulated second the model follows
MaxTime == 1801

\* an incident interval taken in minutes where the loop counts seconds
incident_check_minutes == 900 \div 60

\* line 731
incident_check == 900

weather_log_interval == 900

Vehicles == {"vehicle_1", "vehicle_2"}

\* setup_main_vehicles: the first two trips, renamed
main_vehicles == <<"vehicle_1", "vehicle_2">>

Edges == {"e1", "e2", "e3", "e4"}

Lane(points) == [ok |-> TRUE, shape |-> points]

NoAnswer == [ok |-> FALSE]

\* the simulator's geometry: e1 around (0,0), e2 around (150,0), e3 around
\* (1000,0), e4 around (150,300)
Network ==
    [e \in Edges |->
        CASE e = "e1" -> [known |-> TRUE,
                          lanes |-> <<Lane(<< <<-50, 0>>, <<50, 0>> >>)>>,
                          shape |-> NoAnswer, junctions |-> NoAnswer,
                          length |-> [ok |-> TRUE, value |-> 500]]
          [] e = "e2" -> [known |-> TRUE,
                          lanes |-> <<Lane(<< <<100, 0>>, <<200, 0>> >>)>>,
                          shape |-> NoAnswer, junctions |-> NoAnswer,
                          length |-> [ok |-> TRUE, value |-> 500]]
          [] e = "e3" -> [known |-> TRUE,
                          lanes |-> <<Lane(<< <<950, 0>>, <<1050, 0>> >>)>>,
                          shape |-> NoAnswer, junctions |-> NoAnswer,
                          length |-> [ok |-> TRUE, value |-> 100]]
          [] OTHER    -> [known |-> TRUE,
                          lanes |-> <<Lane(<< <<150, 250>>, <<150, 350>> >>)>>,
                          shape |-> NoAnswer, junctions |-> NoAnswer,
                          length |-> [ok |-> TRUE, value |-> 100]]]

\* a simulator that answers no geometry query for any edge
NetworkUnresolved ==
    [e \in Edges |-> [known |-> FALSE, lanes |-> <<>>, shape |-> NoAnswer,
                      junctions |-> NoAnswer, length |-> NoAnswer]]

Networks == {Network, NetworkUnresolved}

\* duarouter's answer to the trips without weights, and the other route the
\* network offers vehicle_1
InitialRoutes ==
    [v \in Vehicles |-> IF v = "vehicle_1" THEN <<"e1", "e2">> ELSE <<"e3">>]

DetourRoutes ==
    [v \in Vehicles |-> IF v = "vehicle_1" THEN <<"e1", "e4">> ELSE <<"e3">>]

\* the routes the simulator may give a vehicle on rerouteTraveltime
RouteChoices(v) == {InitialRoutes[v], DetourRoutes[v]}

\* raw feed items
ItemClosed == [title |-> <<"R","o","a","d"," ","C","L","O","S","E","D">>,
               coordinate |-> [lat |-> 0, long |-> 0], projFails |-> FALSE]

ItemJam == [title |-> <<"S","t","a","u">>,
            coordinate |-> [lat |-> 0, long |-> 91], projFails |-> FALSE]

Ok(items) == [kind |-> "ok", items |-> items]

\* what the incident provider may answer to one poll of the four pairs
FeedQuiet == <<Ok(<<>>), Ok(<<>>), Ok(<<>>), Ok(<<>>)>>

FeedClosed == <<Ok(<<ItemClosed>>), Ok(<<>>), Ok(<<>>), Ok(<<>>)>>

FeedJam == <<[kind |-> "timeout"], Ok(<<>>), Ok(<<>>), Ok(<<ItemJam>>)>>

FeedJamFirst == <<Ok(<<ItemJam>>), [kind |-> "status"], Ok(<<>>), Ok(<<>>)>>

LoopFeeds == {FeedQuiet, FeedClosed, FeedJam, FeedJamFirst}

\* the weather provider's 15-minute forecast, in seconds from the start of
\* the run
ProviderForecast ==
    << [time |-> -300, weathercode |-> 0], [time |-> 600, weathercode |-> 65],
       [time |-> 1500, weathercode |-> 0] >>

(***************************************************************************)
(* State                                                                    *)
(***************************************************************************)
VARIABLES
    pc,                  \* where the program is
    net_file_exists,     \* os.path.exists(NET_FILE)
    trip_file,           \* TRIP_FILE: [exists, trips], trips the number of <trip> elements
    HAS_PYPROJ,          \* line 15/17
    routed_file,         \* the RouteSet stored in ROUTED_ROUTE_FILE
    routes,              \* __main__'s routes, passed to run_simulation
    EDGE_CENTERS_CACHE,  \* the GeoIndex global; <<>> when None or empty
    incidents,           \* __main__'s startup poll
    router_calls,        \* the override artifacts handed to duarouter by reroute_if_needed
    conn,                \* the TraCI connection: "none", "temp", "open", "closed"
    sim_time,            \* simulator: traci.simulation.getTime()
    veh_state,           \* simulator: vehicle -> "waiting" | "active" | "arrived"
    veh_route,           \* simulator: vehicle -> its current route
    edge_friction,       \* simulator: edge -> friction in hundredths
    prev_incidents,      \* run_simulation locals ...
    t,
    vehicles,
    data_len,            \* len(data["times"])
    data_last,           \* the last speed sample per tracked vehicle
    prev_weather_code,   \* <<code>>, or <<>> for None
    USE_TEST_MODE,
    weather_forecast_df, \* <<forecast>>, or <<>> for None
    wcode2,              \* <<code>> resolved in this tick, <<>> when none was
    polled,              \* this tick ran the incident check
    new_incidents,       \* ... the locals of one incident check, dead after the tick
    new_count,
    resolved_count,
    affected_edges,      \* <<map>> when computed in this tick, else <<>>
    rerouted,            \* vehicle -> rerouteTraveltime calls in this tick
    tick_log,            \* the stages and simulator calls of this tick, in order
    arg,                 \* input of the function under study (function specifications)
    result               \* its output

vars == <<pc, net_file_exists, trip_file, HAS_PYPROJ, routed_file, routes, EDGE_CENTERS_CACHE, incidents,
          router_calls, conn, sim_time, veh_state, veh_route, edge_friction,
          prev_incidents, t, vehicles, data_len, data_last, prev_weather_code,
          USE_TEST_MODE, weather_forecast_df, wcode2, polled, new_incidents,
          new_count, resolved_count, affected_edges, rerouted, tick_log,
          arg, result>>

startup_vars == <<net_file_exists, trip_file, HAS_PYPROJ, routed_file, routes, EDGE_CENTERS_CACHE, incidents,
                  router_calls>>

sim_vars == <<sim_time, veh_state, veh_route, edge_friction>>

weather_vars == <<prev_weather_code, USE_TEST_MODE, weather_forecast_df>>

check_vars == <<polled, new_incidents, new_count, resolved_count, affected_edges,
                rerouted>>

fn_vars == <<arg, result>>

\* sim_start_datetime = datetime.now(): the origin of the model's clock
sim_start_datetime == 0

transformer == IF HAS_PYPROJ THEN "utm" ELSE None

NoReroutes == [v \in Vehicles |-> 0]

\* traci.simulation.getMinExpectedNumber()
getMinExpectedNumber == Cardinality({v \in Vehicles : veh_state[v] # "arrived"})

\* a loop that stops while one vehicle is still expected
LoopCondition_offByOne == getMinExpectedNumber > 1

\* line 747: the while condition
LoopCondition == getMinExpectedNumber > 0

\* traci.vehicle.getIDList(), in id order
getIDList == SelectSeq(main_vehicles, LAMBDA v : veh_state[v] = "active")

\* set_route_friction(routes, friction): the simulator's frictions afterwards
set_route_friction(rs, friction) ==
    [e \in Edges |-> IF e \in RouteEdges(rs) THEN StrFloat(friction)
                     ELSE edge_friction[e]]

\* values of the run_simulation locals before run_simulation assigns them
RunLocalsUnset ==
    /\ prev_incidents = <<>>
    /\ t = 0
    /\ vehicles = <<>>
    /\ data_len = 0
    /\ data_last = [v \in Vehicles |-> 0]
    /\ prev_weather_code = <<>>
    /\ USE_TEST_MODE = FALSE
    /\ weather_forecast_df = <<>>
    /\ wcode2 = <<>>
    /\ polled = FALSE
    /\ new_incidents = <<>>
    /\ new_count = 0
    /\ resolved_count = 0
    /\ affected_edges = <<>>
    /\ rerouted = NoReroutes
    /\ tick_log = <<>>

SimulatorUnstarted ==
    /\ sim_time = 0
    /\ veh_state = [v \in Vehicles |-> "waiting"]
    /\ veh_route = [v \in Vehicles |-> <<>>]
    /\ edge_friction = [e \in Edges |-> 100]

(***************************************************************************)
(* run_simulation                                                           *)
(***************************************************************************)
\* lines 704-709, the connection check failing: return None
RunStartFails ==
    /\ pc = "run_simulation"
    /\ pc' = "no_connection"
    /\ conn' = "closed"
    /\ UNCHANGED <<startup_vars, sim_vars, prev_incidents, t, vehicles, data_len,
                   data_last, weather_vars, wcode2, check_vars, tick_log, fn_vars>>

\* lines 704-745: connect (the simulator loads the routed file), take the
\* initial poll, apply the starting friction
RunStart ==
    /\ pc = "run_simulation"
    /\ \E feed \in LoopFeeds :
           prev_incidents' = get_incidents(feed, transformer)
    /\ LET friction == test_low_friction_scenario[1]
           weather_code == test_low_friction_scenario[2]
       IN  /\ USE_TEST_MODE' = (friction = <<"0",".","2","5">>)
           /\ edge_friction' = set_route_friction(routes, friction)
           /\ prev_weather_code' = <<weather_code>>
           /\ weather_forecast_df' =
                  IF friction # <<"0",".","2","5">> THEN <<ProviderForecast>> ELSE <<>>
    /\ conn' = "open"
    /\ sim_time' = 0
    /\ veh_state' = [v \in Vehicles |-> "waiting"]
    /\ veh_route' = routed_file
    /\ pc' = "loop"
    /\ UNCHANGED <<startup_vars, t, vehicles, data_len, data_last, wcode2,
                   check_vars, tick_log, fn_vars>>

\* how one simulated second may move the vehicles: each departs, arrives or
\* stays as it is
StepOutcomes ==
    {vs \in [Vehicles -> {"waiting", "active", "arrived"}] :
        \A v \in Vehicles :
            \/ vs[v] = veh_state[v]
            \/ veh_state[v] = "waiting" /\ vs[v] = "active"
            \/ veh_state[v] = "active" /\ vs[v] = "arrived"}

\* lines 747-748: the loop condition holds and the simulator steps
Step ==
    /\ pc = "loop"
    /\ LoopCondition
    /\ sim_time < MaxTime
    /\ sim_time' = sim_time + 1
    /\ veh_state' \in StepOutcomes
    /\ tick_log' = << <<"step">> >>
    /\ wcode2' = <<>>
    /\ polled' = FALSE
    /\ new_incidents' = <<>>
    /\ new_count' = 0
    /\ resolved_count' = 0
    /\ affected_edges' = <<>>
    /\ rerouted' = NoReroutes
    /\ pc' = "stepped"
    /\ UNCHANGED <<startup_vars, conn, veh_route, edge_friction, prev_incidents,
                   t, vehicles, data_len, data_last, weather_vars, fn_vars>>

\* lines 749-754: telemetry capture
Telemetry ==
    /\ pc = "stepped"
    /\ t' = sim_time
    /\ data_len' = data_len + 1
    /\ vehicles' = getIDList
    /\ data_last' = [v \in Vehicles |-> IF veh_state[v] = "active" THEN 36 ELSE 0]
    /\ tick_log' = Append(tick_log, <<"telemetry">>)
    /\ pc' = "telemetry_done"
    /\ UNCHANGED <<startup_vars, conn, sim_vars, prev_incidents, weather_vars,
                   wcode2, check_vars, fn_vars>>

\* lines 756-783: weather re-evaluation, entered from program position `at`
WeatherStage(at) ==
    /\ pc = at
    /\ IF ~USE_TEST_MODE /\ weather_forecast_df # <<>>
       THEN IF Len(weather_forecast_df[1]) = 0
            THEN \* iloc[0] of an empty forecast raises out of run_simulation
                 /\ pc' = "error"
                 /\ UNCHANGED <<edge_friction, prev_weather_code, wcode2, tick_log>>
            ELSE LET r == get_weather_for_simulation_time(
                              weather_forecast_df[1], sim_start_datetime, t)
                 IN  /\ wcode2' = <<r[2]>>
                     /\ pc' = "weather_done"
                     /\ IF <<r[2]>> # prev_weather_code
                        THEN /\ edge_friction' = set_route_friction(routed_file, r[1])
                             /\ prev_weather_code' = <<r[2]>>
                             /\ tick_log' = tick_log \o << <<"weather">>, <<"friction">> >>
                        ELSE /\ tick_log' = Append(tick_log, <<"weather">>)
                             /\ UNCHANGED <<edge_friction, prev_weather_code>>
       ELSE \* test mode: a log line every 15 minutes, nothing else
            /\ pc' = "weather_done"
            /\ tick_log' = Append(tick_log, <<"weather">>)
            /\ UNCHANGED <<edge_friction, prev_weather_code, wcode2>>
    /\ UNCHANGED <<startup_vars, conn, sim_time, veh_state, veh_route,
                   prev_incidents, t, vehicles, data_len, data_last,
                   USE_TEST_MODE, weather_forecast_df, check_vars, fn_vars>>

\* the weather block moved above the telemetry capture
Weather_beforeTelemetry == WeatherStage("stepped")

\* the weather block where the loop has it: after the telemetry capture
Weather == WeatherStage("telemetry_done")

\* a loop that reroutes every active vehicle once any edge is affected
RerouteCalls_everyVehicle(vs, i, affected, calls) ==
    [v \in Vehicles |-> IF \E k \in 1..Len(vs) : vs[k] = v THEN 1 ELSE 0]

\* lines 801-805: the rerouteTraveltime calls of the loop over vehicles
RECURSIVE RerouteCalls(_, _, _, _)
RerouteCalls(vs, i, affected, calls) ==
    IF i > Len(vs) THEN calls
    ELSE LET v == vs[i]
             route == veh_route[v]
         IN  RerouteCalls(vs, i + 1, affected,
                 IF \E k \in 1..Len(route) : route[k] \in DOMAIN affected
                 THEN [calls EXCEPT ![v] = @ + 1]
                 ELSE calls)

\* the log entries of those calls, in call order
RECURSIVE RerouteLog(_, _, _)
RerouteLog(vs, i, calls) ==
    IF i > Len(vs) THEN <<>>
    ELSE (IF calls[vs[i]] > 0 THEN << <<"reroute", vs[i]>> >> ELSE <<>>)
         \o RerouteLog(vs, i + 1, calls)

\* the polled incidents added to the remembered ones
ReplacePrev_merged(prev, new, changed) ==
    IF changed THEN prev \o new ELSE prev

\* lines 791, 819: prev_incidents after the comparison
ReplacePrev(prev, new, changed) ==
    IF changed THEN new ELSE prev

\* lines 785-821: incident re-evaluation.  Each value of the incident check is bound
\* once, in the order the code computes it.
Incident ==
    /\ pc = "weather_done"
    /\ pc' = "loop"
    /\ IF t % incident_check = 0 /\ t > 0
       THEN \E feed \in LoopFeeds :
            \E new \in {get_incidents(feed, transformer)} :
            \E cmp \in {compare_incidents_accurately(prev_incidents, new)} :
            \E changed \in {cmp[1] > 0 \/ cmp[2] > 0} :
            \E correlate \in {changed /\ EDGE_CENTERS_CACHE # <<>>} :
            \E affected \in {IF correlate
                             THEN get_affected_route_edges(new, EDGE_CENTERS_CACHE)
                             ELSE <<>>} :
            \E calls \in {IF affected # <<>>
                          THEN RerouteCalls(vehicles, 1, affected, NoReroutes)
                          ELSE NoReroutes} :
                  /\ polled' = TRUE
                  /\ new_incidents' = new
                  /\ new_count' = cmp[1]
                  /\ resolved_count' = cmp[2]
                  /\ affected_edges' = IF correlate THEN <<affected>> ELSE <<>>
                  /\ rerouted' = calls
                  /\ veh_route' \in {vr \in [Vehicles -> UNION {RouteChoices(v) : v \in Vehicles}] :
                                        \A v \in Vehicles :
                                            IF calls[v] > 0 THEN vr[v] \in RouteChoices(v)
                                                            ELSE vr[v] = veh_route[v]}
                  /\ prev_incidents' = ReplacePrev(prev_incidents, new, changed)
                  /\ tick_log' = tick_log \o << <<"incident">>, <<"poll">> >>
                                   \o (IF correlate THEN << <<"correlate">> >> ELSE <<>>)
                                   \o RerouteLog(vehicles, 1, calls)
       ELSE /\ tick_log' = Append(tick_log, <<"incident">>)
            /\ UNCHANGED <<veh_route, prev_incidents, check_vars>>
    /\ UNCHANGED <<startup_vars, conn, sim_time, veh_state, edge_friction, t,
                   vehicles, data_len, data_last, weather_vars, wcode2, fn_vars>>

\* lines 747, 823-841: the loop condition fails; close the connection and
\* return data
LoopExit ==
    /\ pc = "loop"
    /\ ~LoopCondition
    /\ conn' = "closed"
    /\ pc' = "returned"
    /\ UNCHANGED <<startup_vars, sim_vars, prev_incidents, t, vehicles, data_len,
                   data_last, weather_vars, wcode2, check_vars, tick_log, fn_vars>>

FnIdle == arg = <<>> /\ result = <<>>

\* __main__ has reached line 964: the routed file holds duarouter's first
\* answer or, after a full re-route (lines 957-958), its second one; the
\* GeoIndex is the one line 942 built from the first answer (empty when no
\* edge geometry could be resolved)
LoopInit ==
    /\ pc = "run_simulation"
    /\ net_file_exists = TRUE
    /\ trip_file = [exists |-> TRUE, trips |-> 2]
    /\ HAS_PYPROJ \in BOOLEAN
    /\ routed_file \in {InitialRoutes, DetourRoutes}
    /\ routes = routed_file
    /\ \E net \in Networks :
          EDGE_CENTERS_CACHE = get_edge_centers_for_routes(InitialRoutes, net)
    /\ incidents = <<>>
    /\ router_calls = <<>>
    /\ conn = "closed"
    /\ SimulatorUnstarted
    /\ RunLocalsUnset
    /\ FnIdle

LoopNext ==
    \/ RunStartFails
    \/ RunStart
    \/ Step
    \/ Telemetry
    \/ Weather
    \/ Incident
    \/ LoopExit

SpecLoop == LoopInit /\ [][LoopNext]_vars

(***************************************************************************)
(* __main__: startup                                                        *)
(***************************************************************************)
loop_vars == <<sim_vars, prev_incidents, t, vehicles, data_len, data_last,
               weather_vars, wcode2, check_vars, tick_log>>

\* the trip files the model starts from: none, or one with 0..MaxTrips trips
MaxTrips == 2

\* a startup that does not look for the network file
CheckNetFile_unchecked ==
    /\ pc = "main"
    /\ pc' = "setup"
    /\ UNCHANGED <<startup_vars, conn, loop_vars, fn_vars>>

\* lines 912-914
CheckNetFile ==
    /\ pc = "main"
    /\ pc' = IF net_file_exists THEN "setup" ELSE "exit"
    /\ UNCHANGED <<startup_vars, conn, loop_vars, fn_vars>>

\* setup_main_vehicles / generate_fallback_routes: the trip file afterwards
setup_main_vehicles(tf) ==
    IF ~tf.exists \/ tf.trips < 2 THEN [exists |-> TRUE, trips |-> 2] ELSE tf

\* lines 916-921: setup_main_vehicles always names two vehicles
SetupVehicles ==
    /\ pc = "setup"
    /\ trip_file' = setup_main_vehicles(trip_file)
    /\ pc' = IF Len(main_vehicles) = 0 THEN "exit" ELSE "preprocess"
    /\ UNCHANGED <<net_file_exists, HAS_PYPROJ, routed_file, routes,
                   EDGE_CENTERS_CACHE, incidents, router_calls, conn, loop_vars,
                   fn_vars>>

\* lines 924-929: duarouter routes the trips; get_routes_from_file reads them
Preprocess ==
    /\ pc = "preprocess"
    /\ routed_file' = InitialRoutes
    /\ routes' = InitialRoutes
    /\ pc' = "route_analysis"
    /\ UNCHANGED <<net_file_exists, trip_file, HAS_PYPROJ, EDGE_CENTERS_CACHE,
                   incidents, router_calls, conn, loop_vars, fn_vars>>

\* line 167, check=True: duarouter fails, the exception reaches line 977
PreprocessFails ==
    /\ pc = "preprocess"
    /\ pc' = "error"
    /\ UNCHANGED <<startup_vars, conn, loop_vars, fn_vars>>

\* lines 932-944: the temporary session that builds the GeoIndex
RouteAnalysis ==
    /\ pc = "route_analysis"
    /\ \E net \in Networks :
          EDGE_CENTERS_CACHE' = get_edge_centers_for_routes(routes, net)
    /\ conn' = "closed"
    /\ pc' = "check_incidents"
    /\ UNCHANGED <<net_file_exists, trip_file, HAS_PYPROJ, routed_file, routes,
                   incidents, router_calls, loop_vars, fn_vars>>

\* lines 938-940
RouteAnalysisFails ==
    /\ pc = "route_analysis"
    /\ pc' = "exit"
    /\ UNCHANGED <<startup_vars, conn, loop_vars, fn_vars>>

\* lines 948-952, 960: the startup poll and its correlation
CheckIncidents ==
    /\ pc = "check_incidents"
    /\ \E feed \in LoopFeeds :
          /\ incidents' = get_incidents(feed, transformer)
          /\ pc' = IF get_affected_route_edges(incidents', EDGE_CENTERS_CACHE) # <<>>
                   THEN "reroute" ELSE "run_simulation"
    /\ UNCHANGED <<net_file_exists, trip_file, HAS_PYPROJ, routed_file, routes,
                   EDGE_CENTERS_CACHE, router_calls, conn, loop_vars, fn_vars>>

\* what duarouter may answer when given the weights: it keeps the routes or
\* moves vehicle_1 to its detour
RouterOutputs == {InitialRoutes, DetourRoutes}

\* reroute_if_needed when duarouter succeeds, then line 958.  A call is
\* recorded as [weights, ok].
reroute_if_needed_ok(affected, out) ==
    /\ router_calls' = Append(router_calls, [weights |-> affected, ok |-> TRUE])
    /\ routed_file' = out
    /\ routes' = out
    /\ pc' = "run_simulation"

\* a reroute_if_needed without its except clause: the failure reaches line 977
reroute_if_needed_uncaught(affected) ==
    /\ router_calls' = Append(router_calls, [weights |-> affected, ok |-> FALSE])
    /\ routed_file' = routed_file
    /\ routes' = routes
    /\ pc' = "error"

\* reroute_if_needed when duarouter exits non-zero (CalledProcessError), then
\* line 958: the failed router has left ROUTED_ROUTE_FILE as it was
reroute_if_needed_failed(affected) ==
    /\ router_calls' = Append(router_calls, [weights |-> affected, ok |-> FALSE])
    /\ routed_file' = routed_file
    /\ routes' = routed_file
    /\ pc' = "run_simulation"

RerouteOk ==
    /\ pc = "reroute"
    /\ \E out \in RouterOutputs :
          reroute_if_needed_ok(
              get_affected_route_edges(incidents, EDGE_CENTERS_CACHE), out)
    /\ UNCHANGED <<net_file_exists, trip_file, HAS_PYPROJ, EDGE_CENTERS_CACHE,
                   incidents, conn, loop_vars, fn_vars>>

RerouteFails ==
    /\ pc = "reroute"
    /\ reroute_if_needed_failed(
           get_affected_route_edges(incidents, EDGE_CENTERS_CACHE))
    /\ UNCHANGED <<net_file_exists, trip_file, HAS_PYPROJ, EDGE_CENTERS_CACHE,
                   incidents, conn, loop_vars, fn_vars>>

StartupInit ==
    /\ pc = "main"
    /\ net_file_exists \in BOOLEAN
    /\ trip_file \in {[exists |-> FALSE, trips |-> 0]}
                       \cup {[exists |-> TRUE, trips |-> n] : n \in 0..MaxTrips}
    /\ HAS_PYPROJ \in BOOLEAN
    /\ routed_file = <<>>
    /\ routes = <<>>
    /\ EDGE_CENTERS_CACHE = <<>>
    /\ incidents = <<>>
    /\ router_calls = <<>>
    /\ conn = "none"
    /\ SimulatorUnstarted
    /\ RunLocalsUnset
    /\ FnIdle

StartupNext ==
    \/ CheckNetFile
    \/ SetupVehicles
    \/ Preprocess
    \/ PreprocessFails
    \/ RouteAnalysis
    \/ RouteAnalysisFails
    \/ CheckIncidents
    \/ RerouteOk
    \/ RerouteFails
    \/ RunStartFails
    \/ RunStart

SpecStartup == StartupInit /\ [][StartupNext]_vars

(***************************************************************************)
(* Specifications of single functions: the program state is parked and     *)
(* arg/result hold the function's input and output                          *)
(***************************************************************************)
Parked ==
    /\ pc = "function"
    /\ net_file_exists = TRUE
    /\ trip_file = [exists |-> TRUE, trips |-> 2]
    /\ HAS_PYPROJ = TRUE
    /\ routed_file = <<>>
    /\ routes = <<>>
    /\ EDGE_CENTERS_CACHE = <<>>
    /\ incidents = <<>>
    /\ router_calls = <<>>
    /\ conn = "none"
    /\ SimulatorUnstarted
    /\ RunLocalsUnset

program_vars == <<pc, startup_vars, conn, loop_vars>>

\* ---- get_weather_for_simulation_time ----
MaxForecastLen == 3

MaxResolves == 2

ForecastTimes == {0, 900, 1800}

ForecastCodes == {0, 65}

AnchorTimes == {0, 450}

ElapsedTimes == {0, 450, 900, 1800}

\* the time-ascending forecasts of up to MaxForecastLen samples
Forecasts ==
    UNION {{f \in [1..n -> [time : ForecastTimes, weathercode : ForecastCodes]] :
               \A i \in 1..(n - 1) : f[i].time <= f[i + 1].time}
           : n \in 1..MaxForecastLen}

WeatherInit ==
    /\ Parked
    /\ arg \in [forecast : Forecasts, anchor : AnchorTimes]
    /\ result = <<>>

\* one call of get_weather_for_simulation_time; result maps each elapsed time
\* asked for to the row found, the triple returned and the number of calls
Resolve ==
    /\ \E e \in ElapsedTimes :
          LET n == IF e \in DOMAIN result THEN result[e].calls ELSE 0
              answer == [row |-> weather_row(arg.forecast, arg.anchor, e),
                         out |-> get_weather_for_simulation_time(
                                     arg.forecast, arg.anchor, e),
                         calls |-> n + 1]
          IN  /\ n < MaxResolves
              /\ result' = [x \in DOMAIN result \cup {e} |->
                               IF x = e THEN answer ELSE result[x]]
    /\ UNCHANGED <<arg, program_vars>>

SpecWeather == WeatherInit /\ [][Resolve]_vars

\* ---- remove_duplicate_incidents ----
MaxBatch == 3

TitleJam == <<"S","t","a","u">>

TitleWorks == <<"L","a","n","e">>

\* incidents along one parallel: longitude 0, 5, 9 or 14 units (0, 55.6,
\* 100.08, 155.7 m of great circle; 0, 55, 99, 154 m when projected), with
\* or without local coordinates
BatchIncident(i, lon, title, local) ==
    LET base == [id |-> <<"A2", "warning", i - 1>>, title |-> title,
                 latitude |-> 0, longitude |-> lon, type |-> "warning",
                 area |-> "A2", severity |-> "low"]
    IN  IF local
        THEN [f \in DOMAIN base \cup {"local_x", "local_y"} |->
                 IF f = "local_x" THEN convert_gps_to_local(0, lon, "utm", FALSE)[1]
                 ELSE IF f = "local_y" THEN convert_gps_to_local(0, lon, "utm", FALSE)[2]
                 ELSE base[f]]
        ELSE base

\* what one incident of a batch is chosen from
BatchChoices == {0, 5, 9, 14} \X {TitleJam, TitleWorks} \X BOOLEAN

\* the batch of the incidents chosen by c
Batch(c) == [i \in DOMAIN c |-> BatchIncident(i, c[i][1], c[i][2], c[i][3])]

DedupInit ==
    /\ Parked
    /\ \E n \in 0..MaxBatch :
          \E c \in [1..n -> BatchChoices] : arg = Batch(c)
    /\ result = <<>>

\* one call of remove_duplicate_incidents; result is <<returned list>>
Dedup ==
    /\ result = <<>>
    /\ result' = <<remove_duplicate_incidents(arg)>>
    /\ UNCHANGED <<arg, program_vars>>

SpecDedup == DedupInit /\ [][Dedup]_vars

(***************************************************************************)
(* Claims about the simulation loop (SpecLoop)                              *)
(***************************************************************************)
\* a tick has run to its end
TickDone == pc \in {"loop", "returned"} /\ data_len > 0

\* the incident check of a tick is being taken
IncidentCheckStep == pc = "weather_done" /\ polled'

LogHas(kind) == \E i \in 1..Len(tick_log) : tick_log[i][1] = kind

\* C1: at every incident check, with A the ids of PrevIncidentSet and B the
\* ids just polled, the new count is |B \ A| and the resolved count is
\* |A \ B|; when A = B the cycle runs no correlation pass and issues no
\* per-vehicle reroute.
C1_DeltaCounts ==
    [][IncidentCheckStep =>
         LET A == IdsOf(prev_incidents)
             B == IdsOf(new_incidents')
         IN  /\ new_count' = Cardinality(B \ A)
             /\ resolved_count' = Cardinality(A \ B)
             /\ A = B => /\ affected_edges' = <<>>
                         /\ rerouted' = NoReroutes
                         /\ veh_route' = veh_route
                         /\ \A i \in 1..Len(tick_log') :
                                tick_log'[i][1] \notin {"correlate", "reroute"}]_vars

\* a check that found the same non-empty id set while a vehicle was active
C1_Witness ==
    /\ pc = "loop"
    /\ polled
    /\ new_count = 0
    /\ resolved_count = 0
    /\ Len(new_incidents) > 0
    /\ Len(vehicles) > 0

\* C2: at every incident check whose id set differs from PrevIncidentSet the
\* AffectedEdgeMap is recomputed from the polled incidents and
\* rerouteTraveltime is called once for each active vehicle whose current
\* route holds an edge of that map, for no other vehicle, and duarouter is
\* not run.
C2_RerouteExactlyAffected ==
    [][(IncidentCheckStep /\ IdsOf(prev_incidents) # IdsOf(new_incidents')) =>
         LET map == get_affected_route_edges(new_incidents', EDGE_CENTERS_CACHE)
         IN  /\ EDGE_CENTERS_CACHE # <<>> => affected_edges' = <<map>>
             /\ \A v \in Vehicles :
                    rerouted'[v] =
                        IF /\ veh_state[v] = "active"
                           /\ \E k \in 1..Len(veh_route[v]) :
                                  veh_route[v][k] \in DOMAIN map
                        THEN 1 ELSE 0
             /\ \A v \in Vehicles : rerouted'[v] = 0 => veh_route'[v] = veh_route[v]
             /\ router_calls' = router_calls]_vars

\* a check with a delta that rerouted one active vehicle and left another
\* active vehicle alone
C2_Witness ==
    /\ pc = "loop"
    /\ polled
    /\ new_count + resolved_count > 0
    /\ \E v, w \in Vehicles :
          /\ rerouted[v] = 1
          /\ rerouted[w] = 0
          /\ veh_state[w] = "active"

\* C4: the in-loop poll happens at the ticks whose time is a positive
\* multiple of 900 s and at no other; correlation and rerouting happen only
\* in such a tick and only with a non-zero delta.
C4_PollCadence ==
    /\ polled => (t > 0 /\ t % 900 = 0 /\ pc \in {"loop", "returned"})
    /\ (TickDone /\ t % 900 = 0) => polled
    /\ (affected_edges # <<>> \/ rerouted # NoReroutes)
           => (polled /\ (new_count > 0 \/ resolved_count > 0))
    /\ (LogHas("poll") \/ LogHas("correlate") \/ LogHas("reroute")) => polled

\* the second poll, at 1800 s
C4_Witness == pc = "loop" /\ polled /\ t = 1800 /\ new_count > 0

\* the place of a log entry in the tick: step, telemetry, weather (with its
\* friction application), incident (with its poll, correlation and reroutes)
StageRank(entry) ==
    CASE entry[1] = "step" -> 1
      [] entry[1] = "telemetry" -> 2
      [] entry[1] \in {"weather", "friction"} -> 3
      [] OTHER -> 4

StagesLogged ==
    SelectSeq(tick_log,
              LAMBDA e : e[1] \in {"step", "telemetry", "weather", "incident"})

\* C5: within a tick the stages run in the order step, telemetry, weather
\* (with any friction application), incident (with any reroute), and only
\* then the next step; the step call itself applies no friction and reroutes
\* nothing.
C5_StageOrder ==
    /\ [](\A i, j \in 1..Len(tick_log) :
              i < j => StageRank(tick_log[i]) <= StageRank(tick_log[j]))
    /\ [](pc = "stepped" => StagesLogged = << <<"step">> >>)
    /\ [](pc = "telemetry_done" => StagesLogged = << <<"step">>, <<"telemetry">> >>)
    /\ [](pc = "weather_done"
              => StagesLogged = << <<"step">>, <<"telemetry">>, <<"weather">> >>)
    /\ [](TickDone => StagesLogged = << <<"step">>, <<"telemetry">>, <<"weather">>,
                                        <<"incident">> >>)
    /\ [][sim_time' # sim_time =>
             /\ pc = "loop"
             /\ edge_friction' = edge_friction
             /\ veh_route' = veh_route
             /\ tick_log' = << <<"step">> >>]_vars
    /\ [][edge_friction' # edge_friction => pc \in {"run_simulation", "telemetry_done"}]_vars
    /\ [][veh_route' # veh_route => pc \in {"run_simulation", "weather_done"}]_vars

\* a tick that went through every stage and rerouted a vehicle
C5_Witness == pc = "loop" /\ TickDone /\ LogHas("correlate") /\ LogHas("reroute")

LoopPcs == {"loop", "stepped", "telemetry_done", "weather_done"}

\* statements left before run_simulation has returned
StepsToReturn ==
    CASE pc = "stepped" -> 4
      [] pc = "telemetry_done" -> 3
      [] pc = "weather_done" -> 2
      [] pc = "loop" -> 1
      [] OTHER -> 0

ForecastCodeAt(s) ==
    ProviderForecast[weather_row(ProviderForecast, sim_start_datetime, s)].weathercode

\* C3: in every tick the weather sample for anchor + elapsed time is
\* resolved and, after the weather stage, the last applied classification is
\* the one resolved for that tick.
C3_WeatherEveryTick ==
    (pc = "weather_done" \/ TickDone)
        => (wcode2 = <<ForecastCodeAt(t)>> /\ prev_weather_code = wcode2)

(***************************************************************************)
(* Claims about startup (SpecStartup)                                       *)
(***************************************************************************)
\* the AffectedEdgeMap of the startup poll
StartupMap == get_affected_route_edges(incidents, EDGE_CENTERS_CACHE)

Qualifying(e) ==
    {i \in 1..Len(arg.forecast) : arg.forecast[i].time <= arg.anchor + e}

\* the forecast of the scenario: clear at 0 s, heavy rain from 900 s
ScenarioForecast ==
    << [time |-> 0, weathercode |-> 0], [time |-> 900, weathercode |-> 65] >>

\* C8: the classification returned is that of a sample whose timestamp is
\* the greatest one not after anchor + elapsed, or of the earliest sample
\* when no sample qualifies; for the forecast [(0, 0), (900, 65)] anchored at
\* 0 it is the 0 s sample at elapsed 0 and the 900 s sample at elapsed 900
\* and 1800.
C8_GreatestNotAfter ==
    /\ \A e \in DOMAIN result :
          LET f == arg.forecast
              r == result[e].row
          IN  /\ r \in 1..Len(f)
              /\ result[e].out[2] = f[r].weathercode
              /\ IF Qualifying(e) = {}
                 THEN r = 1 /\ \A i \in 1..Len(f) : f[1].time <= f[i].time
                 ELSE /\ r \in Qualifying(e)
                      /\ \A i \in Qualifying(e) : f[i].time <= f[r].time
    /\ (arg = [forecast |-> ScenarioForecast, anchor |-> 0]) =>
          /\ 0 \in DOMAIN result => (result[0].row = 1 /\ result[0].out[2] = 0)
          /\ 900 \in DOMAIN result => (result[900].row = 2 /\ result[900].out[2] = 65)
          /\ 1800 \in DOMAIN result => (result[1800].row = 2 /\ result[1800].out[2] = 65)

\* the scenario resolved at 0, 900 and 1800 s
C8_Witness ==
    /\ arg = [forecast |-> ScenarioForecast, anchor |-> 0]
    /\ {0, 900, 1800} \subseteq DOMAIN result

\* C9: resolving again leaves the forecast, the anchor and every sample
\* already resolved as they were, and a later elapsed time never resolves to
\* a sample with an earlier timestamp.
C9_IdempotentMonotone ==
    /\ [][/\ arg' = arg
          /\ \A e \in DOMAIN result :
                /\ e \in DOMAIN result'
                /\ result'[e].row = result[e].row
                /\ result'[e].out = result[e].out]_vars
    /\ [](\A t1, t2 \in DOMAIN result :
              t1 < t2 => arg.forecast[result[t1].row].time
                            <= arg.forecast[result[t2].row].time)

\* an elapsed time resolved twice, before the first sample, and a later one
\* resolved to a later sample
C9_Witness ==
    \E t1, t2 \in DOMAIN result :
        /\ t1 < t2
        /\ result[t1].calls = 2
        /\ Qualifying(t1) = {}
        /\ arg.forecast[result[t1].row].time < arg.forecast[result[t2].row].time

(***************************************************************************)
(* Claims about remove_duplicate_incidents (SpecDedup)                      *)
(***************************************************************************)
\* the separation of two incidents in decimetres: planar when both carry
\* local coordinates, great-circle otherwise
Separation(a, b) ==
    IF "local_x" \in DOMAIN a /\ "local_x" \in DOMAIN b
    THEN LocalDistance(a.local_x - b.local_x, a.local_y - b.local_y)
    ELSE haversine(a.latitude, a.longitude, b.latitude, b.longitude)

\* same title and less than 100 m apart
TooClose(a, b) == a.title = b.title /\ Separation(a, b) < 1000

\* C10: the list returned holds no two incidents with the same title less
\* than 100 m apart; a batch of two such incidents comes back as its first
\* incident alone; and in any batch an incident that is too close to an
\* earlier retained one is not retained.
C10_NoCloseTwins ==
    result # <<>> =>
        LET out == result[1]
        IN  /\ \A i, j \in 1..Len(out) : i < j => ~TooClose(out[i], out[j])
            /\ (Len(arg) = 2 /\ TooClose(arg[1], arg[2])) => out = <<arg[1]>>
            /\ \A i, j \in 1..Len(arg) :
                   (/\ i < j
                    /\ TooClose(arg[i], arg[j])
                    /\ \E k \in 1..Len(out) : out[k] = arg[i])
                       => ~\E k \in 1..Len(out) : out[k] = arg[j]

\* a batch of three where the third repeats the first across a distant second
C10_Witness ==
    /\ result # <<>>
    /\ Len(arg) = 3
    /\ TooClose(arg[1], arg[3])
    /\ ~TooClose(arg[1], arg[2])
    /\ ~TooClose(arg[2], arg[3])
    /\ result[1] = <<arg[1], arg[2]>>

(***************************************************************************)
(* get_affected_route_edges as a function of its arguments (SpecAffect)     *)
(***************************************************************************)
MaxIncidents == 2

Severities == {"low", "medium", "high"}

\* an incident of the k-th place: local x 0, 100 or 260 m on the axis of the
\* edges, or without local coordinates at latitude 0, 14 or 30 units
CorrIncident(i, k, severity, local) ==
    LET base == [id |-> <<"A2", "warning", i - 1>>, title |-> TitleJam,
                 latitude |-> <<0, 14, 30>>[k], longitude |-> 0,
                 type |-> "warning", area |-> "A2", severity |-> severity]
    IN  IF local
        THEN [f \in DOMAIN base \cup {"local_x", "local_y"} |->
                 IF f = "local_x" THEN <<0, 100, 260>>[k]
                 ELSE IF f = "local_y" THEN 0
                 ELSE base[f]]
        ELSE base

CorrChoices == (1..3) \X Severities \X BOOLEAN

CorrList(c) == [i \in DOMAIN c |-> CorrIncident(i, c[i][1], c[i][2], c[i][3])]

\* the GeoIndex of the initial routes, of the detour routes, and an empty one
GeoIndexes == {get_edge_centers_for_routes(InitialRoutes, Network),
               get_edge_centers_for_routes(DetourRoutes, Network),
               get_edge_centers_for_routes(InitialRoutes, NetworkUnresolved)}

AffectInit ==
    /\ Parked
    /\ \E n \in 0..MaxIncidents :
          \E c \in [1..n -> CorrChoices] :
             \E g \in GeoIndexes : arg = [incidents |-> CorrList(c), centers |-> g]
    /\ result = <<>>

\* one call of get_affected_route_edges; result is <<returned map>>
Correlate ==
    /\ result = <<>>
    /\ result' = <<get_affected_route_edges(arg.incidents, arg.centers)>>
    /\ UNCHANGED <<arg, program_vars>>

SpecAffect == AffectInit /\ [][Correlate]_vars

\* the edge is within the effective radius of the incident
Covers(incident, edge_data) ==
    EdgeDistance(incident, edge_data) <= dynamic_radius(incident, edge_data)

\* the incidents of the call that cover the edge
Covering(edge) ==
    {i \in 1..Len(arg.incidents) : Covers(arg.incidents[i], arg.centers[edge])}

\* C11: the map returned holds an edge of the GeoIndex exactly when some
\* incident covers it, holds no other key, and every edge in it is covered
\* by an incident at least as severe as the severity recorded.
C11_AffectedIff ==
    result # <<>> =>
        LET map == result[1]
        IN  /\ DOMAIN map \subseteq DOMAIN arg.centers
            /\ \A edge \in DOMAIN arg.centers :
                   edge \in DOMAIN map <=> Covering(edge) # {}
            /\ \A edge \in DOMAIN map :
                   \E i \in Covering(edge) :
                       get_severity_weight(arg.incidents[i].severity)
                           >= get_severity_weight(map[edge])

\* two incidents: an edge only the first covers, and an edge none covers
C11_Witness ==
    /\ result # <<>>
    /\ Len(arg.incidents) = 2
    /\ \E e1, e2 \in DOMAIN arg.centers :
          /\ Covering(e1) = {1}
          /\ Covering(e2) = {}
          /\ e1 \in DOMAIN result[1]
          /\ e2 \notin DOMAIN result[1]

\* the orders in which the incidents of the call can be listed
IncidentOrders ==
    {p \in [DOMAIN arg.incidents -> DOMAIN arg.incidents] :
        \A i, j \in DOMAIN arg.incidents : p[i] = p[j] => i = j}

\* C12: the severity recorded for an edge has the greatest rank among the
\* incidents covering it, the map is the same for every order of the
\* incident list, and a low and a high incident covering one edge record
\* high whichever comes first.
C12_MaxSeverityAnyOrder ==
    result # <<>> =>
        LET map == result[1]
        IN  /\ \A edge \in DOMAIN map :
                   /\ \A i \in Covering(edge) :
                          get_severity_weight(arg.incidents[i].severity)
                              <= get_severity_weight(map[edge])
                   /\ \E i \in Covering(edge) : arg.incidents[i].severity = map[edge]
            /\ \A p \in IncidentOrders :
                   get_affected_route_edges([i \in DOMAIN arg.incidents |->
                                                arg.incidents[p[i]]],
                                            arg.centers) = map
            /\ \A edge \in DOMAIN arg.centers :
                   (\E i, j \in Covering(edge) :
                        /\ arg.incidents[i].severity = "low"
                        /\ arg.incidents[j].severity = "high")
                       => map[edge] = "high"

\* a high incident followed by a low one, both covering the same edge
C12_Witness ==
    /\ result # <<>>
    /\ Len(arg.incidents) = 2
    /\ arg.incidents[1].severity = "high"
    /\ arg.incidents[2].severity = "low"
    /\ \E edge \in DOMAIN arg.centers :
          Covering(edge) = {1, 2} /\ result[1][edge] = "high"

(***************************************************************************)
(* get_incidents as a function of the provider's answers (SpecPoll)         *)
(***************************************************************************)
\* what the provider may answer for one pair: no item, one item, two items
\* at different places, the same item twice, a timeout, a non-200 status, or
\* a 200 whose JSON has the wrong shape
PollResponses ==
    {Ok(<<>>), Ok(<<ItemJam>>), Ok(<<ItemJam, ItemClosed>>), Ok(<<ItemJam, ItemJam>>),
     [kind |-> "timeout"], [kind |-> "status"], [kind |-> "badshape"]}

PollInit ==
    /\ Parked
    /\ arg \in [1..Len(PollPairs) -> PollResponses]
    /\ result = <<>>

\* one call of get_incidents; result is <<returned list>>
Poll ==
    /\ result = <<>>
    /\ result' = <<get_incidents(arg, transformer)>>
    /\ UNCHANGED <<arg, program_vars>>

SpecPoll == PollInit /\ [][Poll]_vars

\* the request for pair k failed
PairFailed(k) == arg[k].kind # "ok"

\* C13: after one poll every item of every pair that answered is
\* represented in the list returned (by itself or by the incident it
\* duplicates), every incident returned comes from a pair that answered,
\* and the list holds no two duplicates, whatever pairs failed.
C13_PollIsolation ==
    result # <<>> =>
        LET out == result[1]
        IN  /\ \A k \in 1..Len(PollPairs) :
                   ~PairFailed(k) =>
                       \A n \in 1..Len(arg[k].items) :
                           \E j \in 1..Len(out) :
                               /\ out[j].title = Strip(arg[k].items[n].title)
                               /\ out[j].latitude = arg[k].items[n].coordinate.lat
                               /\ out[j].longitude = arg[k].items[n].coordinate.long
            /\ \A j \in 1..Len(out) :
                   \E k \in 1..Len(PollPairs) :
                       /\ ~PairFailed(k)
                       /\ out[j].area = PollPairs[k][1]
                       /\ out[j].type = PollPairs[k][2]
            /\ \A i, j \in 1..Len(out) : i < j => ~TooClose(out[i], out[j])

\* the same, for the polls in which no payload has the wrong shape
C13_WithoutBadShape ==
    (\A k \in 1..Len(PollPairs) : arg[k].kind # "badshape") => C13_PollIsolation

(***************************************************************************)
(* Further claims about the simulation loop (SpecLoop)                      *)
(***************************************************************************)
\* the GeoIndex in use is the one a build over the working RouteSet gives
GeoIndexCurrent ==
    /\ DOMAIN EDGE_CENTERS_CACHE \subseteq RouteEdges(routes)
    /\ \E net \in Networks :
          EDGE_CENTERS_CACHE = get_edge_centers_for_routes(routes, net)

\* C14: at every correlation pass of the loop the GeoIndex in use was built
\* from the RouteSet that is current then: its edges are edges of that
\* RouteSet and it is what a build over that RouteSet yields.
C14_GeoIndexCurrent ==
    [][(pc = "weather_done" /\ LogHas("correlate")') => GeoIndexCurrent]_vars

(***************************************************************************)
(* The loop with a simulator that may refuse a reroute (SpecLoopFaults)     *)
(***************************************************************************)
\* lines 786-804 when traci.vehicle.getRoute or rerouteTraveltime raises for
\* the first vehicle to reroute: nothing in run_simulation catches it, the
\* exception leaves the loop and is printed at line 977; line 819 and
\* traci.close() at line 837 are not reached
IncidentRerouteRaises ==
    /\ pc = "weather_done"
    /\ t % incident_check = 0 /\ t > 0
    /\ \E feed \in LoopFeeds :
       \E new \in {get_incidents(feed, transformer)} :
       \E cmp \in {compare_incidents_accurately(prev_incidents, new)} :
       \E affected \in {get_affected_route_edges(new, EDGE_CENTERS_CACHE)} :
          /\ cmp[1] > 0 \/ cmp[2] > 0
          /\ EDGE_CENTERS_CACHE # <<>>
          /\ affected # <<>>
          /\ RerouteCalls(vehicles, 1, affected, NoReroutes) # NoReroutes
          /\ polled' = TRUE
          /\ new_incidents' = new
          /\ new_count' = cmp[1]
          /\ resolved_count' = cmp[2]
          /\ affected_edges' = <<affected>>
          /\ rerouted' = NoReroutes
          /\ tick_log' = tick_log \o << <<"incident">>, <<"poll">>, <<"correlate">>,
                                        <<"reroute_raised">> >>
    /\ pc' = "error"
    /\ UNCHANGED <<startup_vars, conn, sim_vars, prev_incidents, t, vehicles,
                   data_len, data_last, weather_vars, wcode2, fn_vars>>

LoopFaultsNext == LoopNext \/ IncidentRerouteRaises

SpecLoopFaults == LoopInit /\ [][LoopFaultsNext]_vars

\* C15: once the loop has started, whatever fails, the loop goes on to its
\* next statement and is left only by the return that follows the simulator
\* reporting no pending vehicle.
C15_FailuresAbsorbed ==
    [][(pc \in LoopPcs) =>
          (pc' \in LoopPcs \/ (pc' = "returned" /\ getMinExpectedNumber = 0))]_vars

(***************************************************************************)
(* get_edge_centers_for_routes as a function of the simulator's answers     *)
(* (SpecGeo)                                                                *)
(***************************************************************************)
MaxLanes == 2

\* the shape of the i-th lane, of the edge itself, and the two junctions
LaneShape(i) == << <<8 * i, 0>>, <<8 * i + 8, 4>> >>

EdgeShape == << <<100, 100>>, <<108, 104>> >>

JunctionPair == [ok |-> TRUE, from |-> <<200, 200>>, to |-> <<204, 208>>]

\* the lane lists of up to MaxLanes lanes, each answering its shape or not
LaneLists ==
    UNION {{[i \in 1..n |-> IF a[i] THEN Lane(LaneShape(i)) ELSE NoAnswer] :
               a \in [1..n -> BOOLEAN]} : n \in 0..MaxLanes}

\* what the simulator may answer about one edge: it does not know the edge,
\* or it knows it and each query answers or raises
EdgeAnswers ==
    {[known |-> FALSE, lanes |-> <<>>, shape |-> NoAnswer, junctions |-> NoAnswer,
      length |-> NoAnswer]}
    \cup [known : {TRUE}, lanes : LaneLists,
          shape : {NoAnswer, Lane(EdgeShape)},
          junctions : {NoAnswer, JunctionPair},
          length : {NoAnswer, [ok |-> TRUE, value |-> 500]}]

\* two vehicles sharing one edge
SharedRoutes ==
    [v \in Vehicles |-> IF v = "vehicle_1" THEN <<"e1", "e2">> ELSE <<"e2">>]

GeoInit ==
    /\ Parked
    /\ \E a1, a2 \in EdgeAnswers :
          arg = [routes |-> SharedRoutes,
                 net |-> [e \in Edges |-> IF e = "e1" THEN a1 ELSE a2]]
    /\ result = <<>>

\* one call of get_edge_centers_for_routes; result is <<returned dict>>
BuildIndex ==
    /\ result = <<>>
    /\ result' = <<get_edge_centers_for_routes(arg.routes, arg.net)>>
    /\ UNCHANGED <<arg, program_vars>>

SpecGeo == GeoInit /\ [][BuildIndex]_vars

\* the vertices the first answering source gives for an edge
LaneVertices(edge) ==
    Concat([i \in 1..Len(arg.net[edge].lanes) |->
               IF arg.net[edge].lanes[i].ok THEN arg.net[edge].lanes[i].shape
               ELSE <<>>])

FirstSource(edge) ==
    IF LaneVertices(edge) # <<>> THEN LaneVertices(edge)
    ELSE IF arg.net[edge].shape.ok THEN arg.net[edge].shape.shape
    ELSE IF arg.net[edge].junctions.ok
         THEN <<arg.net[edge].junctions.from, arg.net[edge].junctions.to>>
    ELSE <<>>

\* C16: the index holds exactly the route edges for which some source gives
\* a vertex, whatever the other edges answer, and the centroid of each is
\* the mean of the vertices of the first source that gives any: the lanes,
\* then the edge's shape, then its two junctions.
C16_FirstSourceCentroid ==
    result # <<>> =>
        LET centers == result[1]
        IN  /\ DOMAIN centers \subseteq RouteEdges(arg.routes)
            /\ \A edge \in RouteEdges(arg.routes) :
                   /\ edge \in DOMAIN centers <=> FirstSource(edge) # <<>>
                   /\ edge \in DOMAIN centers =>
                         /\ centers[edge].x * Len(FirstSource(edge))
                                = SumSeq(FirstSource(edge), 1)
                         /\ centers[edge].y * Len(FirstSource(edge))
                                = SumSeq(FirstSource(edge), 2)

\* one edge unknown to the simulator, the other resolved from its junctions
C16_Witness ==
    /\ result # <<>>
    /\ ~arg.net["e1"].known
    /\ LaneVertices("e2") = <<>>
    /\ ~arg.net["e2"].shape.ok
    /\ DOMAIN result[1] = {"e2"}
    /\ result[1]["e2"].x = 202

(***************************************************************************)
(* Further claims about startup (SpecStartup)                               *)
(***************************************************************************)
\* the trip file gives setup_main_vehicles nothing to use
TripsUnusable == ~trip_file.exists \/ trip_file.trips = 0

\* the program has ended before run_simulation was called
Aborted == pc = "exit" /\ sim_time = 0 /\ conn = "none"

\* C17 as stated: with the network file missing, the trip file missing or no
\* usable trip, startup ends at once, before run_simulation and before any
\* simulator step.
C17_AbortsOnMissingInput ==
    /\ [][(pc = "main" /\ ~net_file_exists) => Aborted']_vars
    /\ [][(pc = "setup" /\ TripsUnusable) => Aborted']_vars
    /\ []((~net_file_exists) => (pc \in {"main", "exit"} /\ sim_time = 0))

\* C17 as the code has it: with the network file missing startup ends at
\* once, before run_simulation and before any simulator step; a trip file
\* that is missing or holds fewer than two trips is replaced by the two
\* built-in fallback trips and startup goes on to route them.
C17_AbortsOnMissingNetwork ==
    /\ [][(pc = "main" /\ ~net_file_exists) => Aborted']_vars
    /\ []((~net_file_exists) => (pc \in {"main", "exit"} /\ sim_time = 0))
    /\ [][(pc = "setup") =>
             /\ pc' = "preprocess"
             /\ trip_file' = IF ~trip_file.exists \/ trip_file.trips < 2
                             THEN [exists |-> TRUE, trips |-> 2]
                             ELSE trip_file]_vars

\* startup ended for want of the network file
C17_Witness == Aborted /\ ~net_file_exists /\ ~trip_file.exists

(***************************************************************************)
(* Further claims about get_affected_route_edges (SpecAffect)               *)
(***************************************************************************)
\* the effective radius in decimetres: base 200, 100 or 50 m, plus a tenth
\* of the edge length up to 100 m with local coordinates, doubled without
EffectiveRadius(severity, local, length) ==
    LET base == CASE severity = "high" -> 2000
                  [] severity = "medium" -> 1000
                  [] OTHER -> 500
    IN  IF local THEN base + (IF length < 1000 THEN length ELSE 1000)
        ELSE 2 * base

HasLocal(incident) == "local_x" \in DOMAIN incident /\ "local_y" \in DOMAIN incident

\* C18: the radius an edge is tested with is base + min(length x 0.1, 100)
\* with local coordinates and 2 x base without; an edge is in the map
\* exactly when its distance to some incident is at most that radius; a
\* high incident at local (0,0) affects an edge of length 500 centred at
\* (150,0) with radius 250; and at one place and edge length the radius for
\* high is at least that for medium, and that for medium at least that for
\* low.
C18_EffectiveRadius ==
    /\ \A i \in 1..Len(arg.incidents) : \A edge \in DOMAIN arg.centers :
          LET incident == arg.incidents[i]
              edge_data == arg.centers[edge]
          IN  /\ dynamic_radius(incident, edge_data)
                     = EffectiveRadius(incident.severity, HasLocal(incident),
                                       edge_data.length)
              /\ dynamic_radius([incident EXCEPT !.severity = "high"], edge_data)
                     >= dynamic_radius([incident EXCEPT !.severity = "medium"], edge_data)
              /\ dynamic_radius([incident EXCEPT !.severity = "medium"], edge_data)
                     >= dynamic_radius([incident EXCEPT !.severity = "low"], edge_data)
              /\ (/\ incident.severity = "high" /\ HasLocal(incident)
                  /\ incident.local_x = 0 /\ incident.local_y = 0
                  /\ edge_data = [x |-> 150, y |-> 0, length |-> 500])
                     => (/\ dynamic_radius(incident, edge_data) = 2500
                         /\ (result # <<>> => edge \in DOMAIN result[1]))
    /\ result # <<>> =>
          \A edge \in DOMAIN arg.centers :
              edge \in DOMAIN result[1] <=>
                  \E i \in 1..Len(arg.incidents) :
                      EdgeDistance(arg.incidents[i], arg.centers[edge])
                          <= EffectiveRadius(arg.incidents[i].severity,
                                             HasLocal(arg.incidents[i]),
                                             arg.centers[edge].length)

\* the scenario: one high incident at local (0,0), and the edge of length
\* 500 centred at (150,0) in the map
C18_Witness ==
    /\ result # <<>>
    /\ Len(arg.incidents) = 1
    /\ arg.incidents[1].severity = "high"
    /\ HasLocal(arg.incidents[1])
    /\ arg.incidents[1].local_x = 0
    /\ "e2" \in DOMAIN arg.centers
    /\ arg.centers["e2"] = [x |-> 150, y |-> 0, length |-> 500]
    /\ "e2" \in DOMAIN result[1]

(***************************************************************************)
(* get_incident_severity as get_incidents uses it: one raw item is turned   *)
(* into an incident                                                         *)
(***************************************************************************)
MaxWords == 3

\* what a title is put together from: keywords of both tiers in several
\* spellings, a keyword split over two pieces, a word of no tier, a blank
TitlePieces ==
    { <<" ">>, <<"S","t","a","u">>, <<"C","L","O","S","E","D">>,
      <<"G","e","s","p","e","r","r","t">>, <<"l","a","n","e">>,
      <<"B","a","u","S","t","e","l","l","e">>, <<"c">>, <<"l","o","s","e","d">> }

\* raw items: with or without a title, with or without a subtitle that
\* names a keyword
SeverityItem(has_title, title, has_subtitle) ==
    LET base == [coordinate |-> [lat |-> 0, long |-> 0], projFails |-> FALSE]
        withTitle == IF has_title
                     THEN [f \in DOMAIN base \cup {"title"} |->
                              IF f = "title" THEN title ELSE base[f]]
                     ELSE base
    IN  IF has_subtitle
        THEN [f \in DOMAIN withTitle \cup {"subtitle"} |->
                 IF f = "subtitle" THEN <<"c","l","o","s","e","d">> ELSE withTitle[f]]
        ELSE withTitle

SeverityInit ==
    /\ Parked
    /\ \E n \in 0..MaxWords : \E pieces \in [1..n -> TitlePieces] :
       \E has_title, has_subtitle \in BOOLEAN :
          /\ has_title \/ n = 0
          /\ arg = SeverityItem(has_title, Concat(pieces), has_subtitle)
    /\ result = <<>>

\* the item is accepted into the batch; result is <<the incident>>
Classify ==
    /\ result = <<>>
    /\ result' = <<MakeIncident(arg, "A2", "warning", 0, transformer)>>
    /\ UNCHANGED <<arg, program_vars>>

SpecSeverity == SeverityInit /\ [][Classify]_vars

\* the title text of a raw item, empty when the item has none
TitleText(it) == IF "title" \in DOMAIN it THEN it.title ELSE <<>>

\* the text holds the keyword somewhere, letter case disregarded
HoldsKeyword(text, word) ==
    \E i \in 1..Len(text) :
        \A j \in 1..Len(word) :
            /\ i + j - 1 <= Len(text)
            /\ LowerChar(text[i + j - 1]) = word[j]

HoldsHigh(text) == \E word \in HighWords : HoldsKeyword(text, word)

HoldsMedium(text) == \E word \in MediumWords : HoldsKeyword(text, word)

\* C19: the severity of an incident depends on the title text of its item
\* only, letter case disregarded: high when the title holds a high-tier
\* keyword (a medium-tier keyword beside it or not), medium when it holds a
\* medium-tier keyword and no high-tier one, low otherwise, an empty or
\* missing title included.
C19_SeverityPrecedence ==
    result # <<>> =>
        LET text == TitleText(arg)
            severity == result[1].severity
        IN  /\ HoldsHigh(text) => severity = "high"
            /\ (HoldsMedium(text) /\ ~HoldsHigh(text)) => severity = "medium"
            /\ (~HoldsMedium(text) /\ ~HoldsHigh(text)) => severity = "low"
            /\ (text = <<>>) => severity = "low"

\* a title that holds a keyword of either tier, the high-tier one not in
\* lower case, has been classified high
C19_Witness ==
    /\ result # <<>>
    /\ HoldsHigh(TitleText(arg))
    /\ HoldsMedium(TitleText(arg))
    /\ ~(\E word \in HighWords : Contains(TitleText(arg), word))
    /\ result[1].severity = "high"

(***************************************************************************)
(* prev_incidents over the run                                              *)
(***************************************************************************)
\* an incident check that ran to the end of the incident stage
CheckCompleted == IncidentCheckStep /\ pc' = "loop"

\* C20: PrevIncidentSet is replaced, never merged: after every incident
\* check its ids are the ids the poll of that check returned, whatever the
\* check went on to do; no other step of the loop changes it; and the step
\* that starts the run sets it to the poll taken then.
C20_PrevReplaced ==
    [][/\ CheckCompleted => (IdsOf(prev_incidents') = IdsOf(new_incidents'))
       /\ ((pc \in LoopPcs) /\ ~CheckCompleted) => (prev_incidents' = prev_incidents)
       /\ (pc = "run_simulation" /\ pc' = "loop") =>
              (\E feed \in LoopFeeds : prev_incidents' = get_incidents(feed, transformer))
      ]_vars

\* a check has found incidents that came and incidents that went, has
\* re-routed a vehicle, and remembers the polled ids only
C20_Witness ==
    /\ pc = "loop"
    /\ polled
    /\ new_count > 0
    /\ resolved_count > 0
    /\ \E v \in Vehicles : rerouted[v] > 0
    /\ IdsOf(prev_incidents) = IdsOf(new_incidents)

\* a check without a delta has left the remembered incidents as they were
C20_WitnessNoDelta ==
    /\ pc = "loop"
    /\ polled
    /\ new_count = 0
    /\ resolved_count = 0
    /\ prev_incidents # <<>>
    /\ IdsOf(prev_incidents) = IdsOf(new_incidents)

(***************************************************************************)
(* remove_duplicate_incidents applied to its own output                     *)
(***************************************************************************)
\* a second call of remove_duplicate_incidents, on the list the first call
\* returned; result is <<first returned list, second returned list>>
DedupAgain ==
    /\ Len(result) = 1
    /\ result' = Append(result, remove_duplicate_incidents(result[1]))
    /\ UNCHANGED <<arg, program_vars>>

DedupTwiceNext == Dedup \/ DedupAgain

SpecDedupTwice == DedupInit /\ [][DedupTwiceNext]_vars

\* out is in's incidents at increasing positions
IsSubsequence(out, in) ==
    \E f \in [1..Len(out) -> 1..Len(in)] :
        /\ \A k \in 1..Len(out) : out[k] = in[f[k]]
        /\ \A k, l \in 1..Len(out) : k < l => f[k] < f[l]

\* the incident at position i of the input is in the list returned
Retained(i) == \E k \in 1..Len(result[1]) : result[1][k] = arg[i]

\* C21: the list returned is the input's incidents at increasing positions
\* and, of a non-empty input, holds the first; an incident is dropped
\* exactly when it has the title of, and is less than 100 m from, an
\* earlier incident that was retained; of A, B, C with B too close to A and
\* C too close to B only, A and C are returned; and the function applied to
\* its own output returns that output.
C21_DedupSubsequence ==
    /\ result # <<>> =>
          LET out == result[1]
          IN  /\ IsSubsequence(out, arg)
              /\ arg # <<>> => (out # <<>> /\ out[1] = arg[1])
              /\ \A j \in 1..Len(arg) :
                     ~Retained(j) <=>
                         \E i \in 1..(j - 1) : Retained(i) /\ TooClose(arg[j], arg[i])
              /\ (/\ Len(arg) = 3
                  /\ TooClose(arg[2], arg[1])
                  /\ TooClose(arg[3], arg[2])
                  /\ ~TooClose(arg[3], arg[1]))
                     => out = <<arg[1], arg[3]>>
    /\ Len(result) = 2 => result[2] = result[1]

\* the chain: B too close to A, C too close to B only; A and C were
\* returned, and returned again by the second call
C21_Witness ==
    /\ Len(result) = 2
    /\ Len(arg) = 3
    /\ TooClose(arg[2], arg[1])
    /\ TooClose(arg[3], arg[2])
    /\ ~TooClose(arg[3], arg[1])
    /\ result[1] = <<arg[1], arg[3]>>
    /\ result[2] = result[1]

====
